---- MODULE Spec2Model ----
(***************************************************************************)
(* A model of advoc's spectral utility (srezmelspec/spectral_util.py,     *)
(* class SpectralUtil) and of the graph construction of the WaveNet       *)
(* vocoder (wavenet_parallel_vocode/wavenet_vocoder.py, WavenetVocoder).  *)
(*                                                                         *)
(* Tensors are modelled by what the operations of SpectralUtil decide on: *)
(* their shape and their dtype (specification Spec), and, for the two     *)
(* projections, their values over a small number of frequency bins, in    *)
(* exact integer arithmetic (specification SpecLin).  The graph           *)
(* construction of the vocoder is modelled by its configuration checks    *)
(* and the attributes it sets (specification SpecVocoder).                *)
(***************************************************************************)
EXTENDS Integers, Sequences, FiniteSets, TLC

VARIABLES
  engine,   \* the SpectralUtil instance: its attributes after __init__
  call,     \* the last call on the engine: operation, arguments, result
  ncalls,   \* the number of calls made on the engine so far
  lin,      \* SpecLin: the filterbank values and the last projection probe
  voc       \* SpecVocoder: the WavenetVocoder instance

vars == <<engine, call, ncalls, lin, voc>>

----------------------------------------------------------------------------
(* Class attributes of SpectralUtil. *)

NFFT == 1024
NHOP == 256
FMIN == 125
FMAX == 7600
NMELS == 80
fs == 22050

\* The number of linear-frequency bins of an NFFT-point real FFT.
NBINS == (NFFT \div 2) + 1

(* Bounds of the model. *)
MaxBatch == 2
MaxFrames == 2
MaxCalls == 2
LinBinsV == 3
MaxMag == 1
MaxEvals == 2

MaxTrainLoops == 2

----------------------------------------------------------------------------
(* Python call results. *)

NoTensor == [shape |-> <<>>, dtype |-> "none", content |-> "none"]

Return(v) == [outcome |-> "return", exc |-> "none", value |-> v]

Raise(e) == [outcome |-> "raise", exc |-> e, value |-> NoTensor]


\* The names bound at module level of spectral_util.py: its imports and the
\* class.  A bare name that is neither a local of the running function nor
\* one of these (nor a builtin) raises NameError when it is evaluated.
ModuleGlobals == {"advoc", "tf", "lws", "np", "SpectralUtil"}

\* Whether a bare name can be evaluated in a function with these local names.
NameResolves(name, locals) == name \in locals \/ name \in ModuleGlobals

----------------------------------------------------------------------------
(* Filterbank construction (advoc.spectral), by the shapes it returns. *)

\* The forward mel filterbank: n_mels rows, n_fft/2+1 columns.
create_mel_filterbank(sr, n_fft, fmin, fmax, n_mels) ==
  IF fmax * 2 > sr \/ fmin >= fmax \/ n_mels > (n_fft \div 2) + 1
  THEN Raise("ValueError")
  ELSE Return([shape |-> <<n_mels, (n_fft \div 2) + 1>>, dtype |-> "float64",
               content |-> "finite"])

\* The (pseudo-)inverse filterbank: n_fft/2+1 rows, n_mels columns.
create_inverse_mel_filterbank(sr, n_fft, fmin, fmax, n_mels) ==
  IF fmax * 2 > sr \/ fmin >= fmax \/ n_mels > (n_fft \div 2) + 1
  THEN Raise("ValueError")
  ELSE Return([shape |-> <<(n_fft \div 2) + 1, n_mels>>, dtype |-> "float64",
               content |-> "finite"])

\* tf.constant(value, dtype='float32')
tf_constant(value, dtype) == [value EXCEPT !.dtype = dtype]

\* SpectralUtil.__init__: the attributes of a constructed engine.
SpectralUtil_init ==
  LET meltrans == create_mel_filterbank(fs, NFFT, FMIN, FMAX, NMELS).value
      invmeltrans ==
        create_inverse_mel_filterbank(fs, NFFT, FMIN, FMAX, NMELS).value
  IN  [meltrans      |-> tf_constant(meltrans, "float32"),
       invmeltrans   |-> tf_constant(invmeltrans, "float32"),
       lws_processor |-> [fsize |-> NFFT, fshift |-> NHOP,
                          mode |-> "speech", perfectrec |-> FALSE]]

----------------------------------------------------------------------------
(* TensorFlow operations, by shape. *)

\* tf.transpose of a matrix.
tf_transpose(m) == [m EXCEPT !.shape = <<m.shape[2], m.shape[1]>>]

\* x[:, :, :, 0]: drops the fourth axis; needs four axes, the fourth not empty.
SliceChannel(x) ==
  IF Len(x.shape) = 4 /\ x.shape[4] >= 1
  THEN Return([x EXCEPT !.shape = SubSeq(x.shape, 1, 3)])
  ELSE Raise("ValueError")

\* tf.tensordot(a, b, axes=1): contracts the last axis of a with the first of b.
tf_tensordot(a, b) ==
  IF a.shape[Len(a.shape)] = b.shape[1]
  THEN Return([a EXCEPT !.shape =
                 SubSeq(a.shape, 1, Len(a.shape) - 1) \o Tail(b.shape)])
  ELSE Raise("ValueError")

\* tf.expand_dims(x, -1)
tf_expand_dims(x) == [x EXCEPT !.shape = Append(x.shape, 1)]

\* tf.expand_dims(tf.tensordot(x[:,:,:,0], mat, axes=1), -1)
ProjectShape(x, mat) ==
  LET s == SliceChannel(x)
  IN  IF s.outcome = "raise" THEN s
      ELSE LET d == tf_tensordot(s.value, mat)
           IN  IF d.outcome = "raise" THEN d
               ELSE Return(tf_expand_dims(d.value))

----------------------------------------------------------------------------
(* The two projections of SpectralUtil. *)

\* A plausible slip: the filterbank is used without being transposed.
mag_to_mel_linear_spec_untransposed(self, mag_spec) ==
  ProjectShape(mag_spec, self.meltrans)

mag_to_mel_linear_spec(self, mag_spec) ==
  ProjectShape(mag_spec, tf_transpose(self.meltrans))

\* A plausible slip: an unrecognized mode falls back to the default mode.
mel_linear_to_mag_spec_fallback(self, mel_spec, transform) ==
  IF transform = "transposed"
  THEN IF NameResolves("meltrans", {"self", "mel_spec", "transform"})
       THEN ProjectShape(mel_spec, self.meltrans)
       ELSE Raise("NameError")
  ELSE ProjectShape(mel_spec, tf_transpose(self.invmeltrans))

\* In the 'transposed' branch the code reads the bare name meltrans, which is
\* no local of the function and no module global (the filterbank is the
\* attribute self.meltrans).
mel_linear_to_mag_spec(self, mel_spec, transform) ==
  IF transform = "inverse"
  THEN ProjectShape(mel_spec, tf_transpose(self.invmeltrans))
  ELSE IF transform = "transposed"
  THEN IF NameResolves("meltrans", {"self", "mel_spec", "transform"})
       THEN ProjectShape(mel_spec, self.meltrans)
       ELSE Raise("NameError")
  ELSE Raise("NotImplementedError")

----------------------------------------------------------------------------
(* numpy and lws operations of the phase reconstruction. *)

\* ndarray.astype(dtype): a copy of the array in the given precision.
np_astype(a, dtype) == [a EXCEPT !.dtype = dtype]

\* a[:, :, 0]: drops the third axis; needs three axes, the third not empty.
SliceThird(a) ==
  IF Len(a.shape) >= 3 /\ a.shape[3] >= 1
  THEN Return([a EXCEPT !.shape =
                 SubSeq(a.shape, 1, 2) \o SubSeq(a.shape, 4, Len(a.shape))])
  ELSE Raise("IndexError")

\* One step of a call, as the library sees it: the array handed over, and for
\* a cast the precision asked for.
Step(name, a, to) == [step |-> name, arg |-> a, to |-> to]

\* What lws works on: a (frames, fsize/2+1) spectrogram.
LwsAccepts(proc, S) ==
  Len(S.shape) = 2 /\ S.shape[2] = (proc.fsize \div 2) + 1

\* The samples of the overlap-add of n frames of fsize samples, fshift apart.
Samples(proc, n) == proc.fshift * (n - 1) + proc.fsize

\* lws.run_lws: a complex spectrogram of the shape given, in double
\* precision.  The wrapper hands its argument over unchecked; whether lws
\* raises on an array that is no (frames, fsize/2+1) spectrogram is not
\* decided by this repository: both outcomes are possible.
run_lws(proc, S) ==
  LET out == [S EXCEPT !.dtype = "complex128", !.content = "computed"]
  IN  IF LwsAccepts(proc, S) THEN {Return(out)}
      ELSE {Raise("LibraryError"), Return(out)}

\* lws.istft: the waveform of the frames given, in double precision.
istft(proc, S) ==
  LET out == [S EXCEPT !.shape = <<Samples(proc, S.shape[1])>>,
                       !.dtype = "float64"]
  IN  IF LwsAccepts(proc, S) THEN {Return(out)}
      ELSE {Raise("LibraryError"), Return(out)}

\* w[:, np.newaxis, np.newaxis]
AddAxes(w) == [w EXCEPT !.shape = <<w.shape[1], 1, 1>>]

\* Lines 42-45, on the working array w and the steps made so far: every
\* outcome the call can have, with the steps made.
Reconstruct(self, w, done) ==
  LET sl == SliceThird(w)
  IN  IF sl.outcome = "raise" THEN {[res |-> sl, trace |-> done]}
      ELSE
        LET t2 == Append(done, Step("run_lws", sl.value, ""))
        IN  UNION {
              IF r.outcome = "raise" THEN {[res |-> r, trace |-> t2]}
              ELSE
                LET t3 == Append(t2, Step("istft", r.value, ""))
                IN  { IF i.outcome = "raise" THEN [res |-> i, trace |-> t3]
                      ELSE [res   |-> Return(np_astype(AddAxes(i.value),
                                                       "float32")),
                            trace |-> Append(t3, Step("astype",
                                               AddAxes(i.value), "float32"))]
                      : i \in istft(self.lws_processor, r.value) }
              : r \in run_lws(self.lws_processor, sl.value) }

\* A plausible slip: the magnitude is not converted to double precision.
audio_from_mag_spec_uncast(self, mag_spec) ==
  Reconstruct(self, mag_spec, <<>>)

audio_from_mag_spec(self, mag_spec) ==
  Reconstruct(self, np_astype(mag_spec, "float64"),
              <<Step("astype", mag_spec, "float64")>>)

----------------------------------------------------------------------------
(* The engine: construction and calls. *)

Batches == 1..MaxBatch
Frames  == 1..MaxFrames

\* Frequency-axis lengths tried: the mel and the linear resolution, and one
\* that is neither.
FreqLens == {NMELS, NBINS, NFFT \div 2}

Transforms == {"inverse", "transposed", "pinv", "Inverse", ""}

Dtypes == {"float16", "float32", "float64"}

Contents == {"zero", "finite", "nan", "inf"}

\* Spectrograms in the convention (batch, time, frequency, 1), and without
\* the batch axis.
Shapes4 == {<<b, t, f, 1>> : b \in Batches, t \in Frames, f \in FreqLens}

Shapes3 == {<<t, f, 1>> : t \in Frames, f \in FreqLens}

Tensors == {[shape |-> s, dtype |-> "float32", content |-> "finite"] :
              s \in Shapes4 \cup Shapes3}

\* The arrays handed to the phase reconstruction: the same shapes, and those
\* with NBINS time frames.
ArrayShapes ==
  Shapes4 \cup Shapes3
  \cup {<<b, NBINS, f, 1>> : b \in Batches, f \in FreqLens}
  \cup {<<NBINS, f, 1>> : f \in FreqLens}

Arrays == {[shape |-> s, dtype |-> d, content |-> c] :
             s \in ArrayShapes, d \in Dtypes, c \in Contents}

NoCall == [op |-> "none", arg |-> NoTensor, transform |-> "",
           res |-> Raise("none"), trace |-> <<>>]

Init ==
  /\ engine = SpectralUtil_init
  /\ call = NoCall
  /\ ncalls = 0
  /\ lin = "unused"
  /\ voc = "unused"

\* A plausible slip: the call keeps the transposed filterbank on the engine.
Call_mag_to_mel_linear_spec_caching ==
  /\ ncalls < MaxCalls
  /\ \E x \in Tensors :
       call' = [op |-> "mag_to_mel_linear_spec", arg |-> x, transform |-> "",
                res |-> mag_to_mel_linear_spec(engine, x), trace |-> <<>>]
  /\ ncalls' = ncalls + 1
  /\ engine' = [engine EXCEPT !.meltrans = tf_transpose(engine.meltrans)]
  /\ UNCHANGED <<lin, voc>>

Call_mag_to_mel_linear_spec ==
  /\ ncalls < MaxCalls
  /\ \E x \in Tensors :
       call' = [op |-> "mag_to_mel_linear_spec", arg |-> x, transform |-> "",
                res |-> mag_to_mel_linear_spec(engine, x), trace |-> <<>>]
  /\ ncalls' = ncalls + 1
  /\ UNCHANGED <<engine, lin, voc>>

Call_mel_linear_to_mag_spec ==
  /\ ncalls < MaxCalls
  /\ \E x \in Tensors, tr \in Transforms :
       call' = [op |-> "mel_linear_to_mag_spec", arg |-> x, transform |-> tr,
                res |-> mel_linear_to_mag_spec(engine, x, tr), trace |-> <<>>]
  /\ ncalls' = ncalls + 1
  /\ UNCHANGED <<engine, lin, voc>>

Call_audio_from_mag_spec ==
  /\ ncalls < MaxCalls
  /\ \E a \in Arrays :
       \E r \in audio_from_mag_spec(engine, a) :
         call' = [op |-> "audio_from_mag_spec", arg |-> a, transform |-> "",
                  res |-> r.res, trace |-> r.trace]
  /\ ncalls' = ncalls + 1
  /\ UNCHANGED <<engine, lin, voc>>

Next ==
  \/ Call_mag_to_mel_linear_spec
  \/ Call_mel_linear_to_mag_spec
  \/ Call_audio_from_mag_spec

Spec == Init /\ [][Next]_vars

----------------------------------------------------------------------------
(* Properties of the engine, checked under Spec. *)

IsCall(op) == call.op = op

\* The frequency axis of a spectrogram: the third of (batch, time, frequency,
\* 1), the second of (time, frequency, 1).
FreqAxis(a) == IF Len(a.shape) = 4 THEN a.shape[3] ELSE a.shape[2]

\* C1: with transform = 'transposed', mel_linear_to_mag_spec maps every mel
\* spectrogram of shape (B, T, 80, 1) to a linear spectrogram of shape
\* (B, T, 513, 1) without raising, as the default mode does.
C1_TransposedModeProjects ==
  ( /\ IsCall("mel_linear_to_mag_spec")
    /\ call.transform = "transposed"
    /\ Len(call.arg.shape) = 4
    /\ call.arg.shape[3] = NMELS
    /\ call.arg.shape[4] = 1 )
  => /\ call.res.outcome = "return"
     /\ call.res.value.shape =
          <<call.arg.shape[1], call.arg.shape[2], NBINS, 1>>

\* C2: for every transform other than 'inverse' and 'transposed',
\* mel_linear_to_mag_spec raises NotImplementedError and returns no
\* spectrogram (it does not fall back to the default mode).
C2_UnrecognizedTransformRaises ==
  ( /\ IsCall("mel_linear_to_mag_spec")
    /\ call.transform \notin {"inverse", "transposed"} )
  => /\ call.res.outcome = "raise"
     /\ call.res.exc = "NotImplementedError"
     /\ call.res.value = NoTensor

C2_Witness ==
  /\ IsCall("mel_linear_to_mag_spec")
  /\ call.transform = "pinv"
  /\ call.arg.shape = <<1, 2, NMELS, 1>>
  /\ call.res.exc = "NotImplementedError"

\* C3: mag_to_mel_linear_spec maps shape (B, T, 513, 1) to (B, T, 80, 1) and
\* mel_linear_to_mag_spec in 'inverse' mode maps (B, T, 80, 1) to
\* (B, T, 513, 1): only the frequency axis is replaced.
C3_ProjectionReplacesFrequencyAxis ==
  /\ ( /\ IsCall("mag_to_mel_linear_spec")
       /\ Len(call.arg.shape) = 4
       /\ call.arg.shape[3] = NBINS
       /\ call.arg.shape[4] = 1 )
     => /\ call.res.outcome = "return"
        /\ call.res.value.shape =
             <<call.arg.shape[1], call.arg.shape[2], NMELS, 1>>
  /\ ( /\ IsCall("mel_linear_to_mag_spec")
       /\ call.transform = "inverse"
       /\ Len(call.arg.shape) = 4
       /\ call.arg.shape[3] = NMELS
       /\ call.arg.shape[4] = 1 )
     => /\ call.res.outcome = "return"
        /\ call.res.value.shape =
             <<call.arg.shape[1], call.arg.shape[2], NBINS, 1>>

C3_Witness ==
  /\ IsCall("mag_to_mel_linear_spec")
  /\ call.arg.shape = <<MaxBatch, MaxFrames, NBINS, 1>>
  /\ call.res.outcome = "return"
  /\ call.res.value.shape = <<MaxBatch, MaxFrames, NMELS, 1>>

C5_EngineNeverWritten == engine = SpectralUtil_init

C5_Witness ==
  /\ ncalls >= 2
  /\ IsCall("audio_from_mag_spec")
  /\ call.res.outcome = "raise"
  /\ engine = SpectralUtil_init

\* C6: a magnitude spectrogram holding NaN or Inf is rejected by
\* audio_from_mag_spec with an error before the reconstruction runs: the
\* value reaches neither run_lws nor istft and no waveform is returned.
C6_NonFiniteRejectedEarly ==
  ( /\ IsCall("audio_from_mag_spec")
    /\ call.arg.content \in {"nan", "inf"} )
  => /\ call.res.outcome = "raise"
     /\ \A i \in 1..Len(call.trace) :
          call.trace[i].step \notin {"run_lws", "istft"}

\* C7: audio_from_mag_spec on an all-zero magnitude spectrogram of shape
\* (1, T, 513, 1) does not fail and returns a waveform of the sample length
\* of T frames (its samples, all zero by the claim, are computed by lws and
\* are not modelled).
C7_SilenceReconstructs ==
  ( /\ IsCall("audio_from_mag_spec")
    /\ call.arg.content = "zero"
    /\ Len(call.arg.shape) = 4
    /\ call.arg.shape[1] = 1
    /\ call.arg.shape[3] = NBINS
    /\ call.arg.shape[4] = 1 )
  => /\ call.res.outcome = "return"
     /\ call.res.value.shape[1] =
          Samples(engine.lws_processor, call.arg.shape[2])

\* C8: whatever the precision of its input, audio_from_mag_spec hands run_lws
\* a double-precision magnitude, istft a double-precision spectrogram, and
\* returns a float32 waveform; the only cast to float32 is the last step.
C8_DoubleInsideSingleOut ==
  IsCall("audio_from_mag_spec") =>
    LET t == call.trace
    IN  /\ Len(t) >= 1
        /\ t[1].step = "astype" /\ t[1].to = "float64"
        /\ \A i \in 1..Len(t) :
             /\ t[i].step = "run_lws" => t[i].arg.dtype = "float64"
             /\ t[i].step = "istft" => t[i].arg.dtype = "complex128"
             /\ (t[i].step = "astype" /\ t[i].to # "float64") =>
                  /\ i = Len(t)
                  /\ t[i].to = "float32"
                  /\ t[i].arg.dtype = "float64"
                  /\ call.res.outcome = "return"
        /\ call.res.outcome = "return" =>
             /\ call.res.value.dtype = "float32"
             /\ t[Len(t)].step = "astype" /\ t[Len(t)].to = "float32"

C8_Witness ==
  /\ IsCall("audio_from_mag_spec")
  /\ call.arg.dtype = "float16"
  /\ call.arg.shape = <<2, NBINS, 1>>
  /\ call.res.outcome = "return"
  /\ call.res.value.dtype = "float32"
  /\ Len(call.trace) = 4

----------------------------------------------------------------------------
(* The projections by value.  One (batch, time) position of a spectrogram   *)
(* is a vector over the frequency axis; tensordot contracts that axis only, *)
(* so each position is projected alone.  Values are integers (exact         *)
(* arithmetic: floating-point rounding is not modelled), over LinBinsV      *)
(* linear bins and MelBandsV mel bands.                                     *)

MelBandsV == LinBinsV - 1

RECURSIVE SumTo(_, _)
SumTo(f, n) == IF n = 0 THEN 0 ELSE f[n] + SumTo(f, n - 1)

\* tf.transpose of a matrix (a tuple of rows).
TransposeV(M) == [j \in 1..Len(M[1]) |-> [i \in 1..Len(M) |-> M[i][j]]]

\* tf.tensordot(x, M, axes=1) at one position: out[j] = sum_i x[i] * M[i][j].
TensordotV(x, M) ==
  [j \in 1..Len(M[1]) |-> SumTo([i \in 1..Len(x) |-> x[i] * M[i][j]], Len(x))]

\* A plausible slip: the projected magnitudes are clipped at zero.
mag_to_mel_linear_values_clipped(self, x) ==
  LET y == TensordotV(x, TransposeV(self.meltrans))
  IN  [j \in 1..Len(y) |-> IF y[j] < 0 THEN 0 ELSE y[j]]

\* mag_to_mel_linear_spec at one position.
mag_to_mel_linear_values(self, x) ==
  TensordotV(x, TransposeV(self.meltrans))

\* mel_linear_to_mag_spec in 'inverse' mode at one position.
mel_linear_to_mag_values(self, x) ==
  TensordotV(x, TransposeV(self.invmeltrans))

\* Filterbank values: the forward filterbank has MelBandsV rows of
\* overlapping non-negative bands, the inverse LinBinsV rows of coefficients
\* of both signs.
Slopes == {1, 2}

MelFilterbankV(s) ==
  [m \in 1..MelBandsV |->
     [f \in 1..LinBinsV |-> IF f = m THEN s ELSE IF f = m + 1 THEN 1 ELSE 0]]

InverseFilterbankV(s) ==
  [f \in 1..LinBinsV |->
     [m \in 1..MelBandsV |-> IF f = m THEN 1 ELSE IF f = m + 1 THEN 0 - s ELSE 0]]

Mags == 0..MaxMag

Scalars == {0 - 1, 0, 2}

LinVectors == [1..LinBinsV -> Mags]

MelVectors == [1..MelBandsV -> Mags]

\* a*X + b*Y
Combine(a, X, b, Y) == [i \in 1..Len(X) |-> a * X[i] + b * Y[i]]

NoProbe == [op |-> "none", a |-> 0, b |-> 0, X |-> <<>>, Y |-> <<>>,
            ofSum |-> <<>>, ofX |-> <<>>, ofY |-> <<>>]

InitLin ==
  /\ engine = SpectralUtil_init
  /\ call = NoCall
  /\ ncalls = 0
  /\ voc = "unused"
  /\ \E s \in Slopes :
       lin = [meltrans |-> MelFilterbankV(s),
              invmeltrans |-> InverseFilterbankV(s),
              probe |-> NoProbe]

\* mag_to_mel_linear_spec applied to a*X + b*Y, to X and to Y.
Probe_mag_to_mel_linear_spec ==
  /\ lin.probe.op = "none"
  /\ \E X \in LinVectors, Y \in LinVectors, a \in Scalars, b \in Scalars :
       lin' = [lin EXCEPT !.probe =
                 [op |-> "mag_to_mel_linear_spec",
                  a |-> a, b |-> b, X |-> X, Y |-> Y,
                  ofSum |-> mag_to_mel_linear_values(lin, Combine(a, X, b, Y)),
                  ofX |-> mag_to_mel_linear_values(lin, X),
                  ofY |-> mag_to_mel_linear_values(lin, Y)]]
  /\ UNCHANGED <<engine, call, ncalls, voc>>

\* mel_linear_to_mag_spec ('inverse') applied to a*X + b*Y, to X and to Y.
Probe_mel_linear_to_mag_spec ==
  /\ lin.probe.op = "none"
  /\ \E X \in MelVectors, Y \in MelVectors, a \in Scalars, b \in Scalars :
       lin' = [lin EXCEPT !.probe =
                 [op |-> "mel_linear_to_mag_spec",
                  a |-> a, b |-> b, X |-> X, Y |-> Y,
                  ofSum |-> mel_linear_to_mag_values(lin, Combine(a, X, b, Y)),
                  ofX |-> mel_linear_to_mag_values(lin, X),
                  ofY |-> mel_linear_to_mag_values(lin, Y)]]
  /\ UNCHANGED <<engine, call, ncalls, voc>>

NextLin ==
  \/ Probe_mag_to_mel_linear_spec
  \/ Probe_mel_linear_to_mag_spec

SpecLin == InitLin /\ [][NextLin]_vars

IsZeroV(x) == \A i \in 1..Len(x) : x[i] = 0

\* C10: both projections are linear in the spectrogram:
\* project(a*X + b*Y) = a*project(X) + b*project(Y), and an all-zero
\* spectrogram projects to an all-zero spectrogram.
C10_ProjectionIsLinear ==
  lin.probe.op # "none" =>
    /\ lin.probe.ofSum =
         Combine(lin.probe.a, lin.probe.ofX, lin.probe.b, lin.probe.ofY)
    /\ IsZeroV(lin.probe.X) => IsZeroV(lin.probe.ofX)
    /\ Len(lin.probe.ofX) =
         (IF lin.probe.op = "mag_to_mel_linear_spec"
          THEN MelBandsV ELSE LinBinsV)

C10_Witness ==
  /\ lin.probe.op = "mag_to_mel_linear_spec"
  /\ lin.probe.a = 0 - 1
  /\ lin.probe.b = 2
  /\ ~IsZeroV(lin.probe.ofX)
  /\ ~IsZeroV(lin.probe.ofY)
  /\ \E j \in 1..MelBandsV : lin.probe.ofSum[j] < 0

----------------------------------------------------------------------------
(* WavenetVocoder: the construction of the graph by __call__. *)

\* Class attributes of WavenetVocoder.
subseq_len == 24
subseq_nsamps == 6144

\* The time stride of the learned upsampling (conv2d_transpose, 'same').
UpsampleStride == 4

\* The learned upsampling loop: the time axis is multiplied by the stride
\* until it is subseq_nsamps long; ValueError once it is longer.
RECURSIVE LearnedUpsample(_)
LearnedUpsample(len) ==
  IF len = subseq_nsamps THEN "ok"
  ELSE IF len > subseq_nsamps THEN "ValueError"
  ELSE LearnedUpsample(len * UpsampleStride)

\* Lines 78-103: the upsampling of the conditioning spectrogram.
Upsample(input_spec_upsample, x_len) ==
  IF input_spec_upsample \in {"default", "tile", "linear"} THEN "ok"
  ELSE IF input_spec_upsample = "learned" THEN LearnedUpsample(x_len)
  ELSE "ValueError"

\* Lines 108-127: the input structure.
InputStructure(input_type, input_spec_upsample) ==
  IF input_type \in {"uniform_spec", "gaussian_spec"} THEN "ok"
  ELSE IF input_type \in {"spec_none", "spec_spec", "spec_lospec"}
  THEN IF input_spec_upsample # "default" THEN "ok" ELSE "AssertionError"
  ELSE "ValueError"

\* A plausible slip: an unrecognized pair falls back to the class default.
ReconLoss_fallback(domain, norm) ==
  IF /\ domain \in {"wave", "r9y9_legacy", "r9y9", "linmagspec", "logmagspec"}
     /\ norm \in {"l1", "l2"}
  THEN <<domain, norm>>
  ELSE <<"r9y9", "l2">>

\* Lines 172-193: the reconstruction loss of (train_recon_domain,
\* train_recon_norm), <<>> when the pair has none.
ReconLoss(domain, norm) ==
  IF /\ domain \in {"wave", "r9y9_legacy", "r9y9", "linmagspec", "logmagspec"}
     /\ norm \in {"l1", "l2"}
  THEN <<domain, norm>>
  ELSE <<>>

\* Lines 196-239: the discriminator architectures.
DiscArchs == {"nsynth_patched_waveonly", "wavegan_waveonly",
              "wavegan_wavespec", "wavegan_patched_waveonly",
              "wavegan_patched_wavespec"}

\* Lines 250-288: train_gan_num_disc_updates of the objective, 0 when the
\* objective is not recognized.
DiscUpdates(objective) ==
  IF objective = "dcgan" THEN 1
  ELSE IF objective = "wgangp" THEN 5
  ELSE 0

\* The outcome of __call__: how it ended and the attributes it set on self.
Built(exc, attrs, ndisc, sess) ==
  [built |-> TRUE,
   outcome |-> IF exc = "none" THEN "return" ELSE "raise",
   exc |-> exc, attrs |-> attrs,
   train_gan_num_disc_updates |-> ndisc, wavenet_sess |-> sess]

\* Lines 129-169: the decoder and the losses.
GraphAttrs ==
  {"vocoded_wave", "global_vars", "wav_l1", "wav_l2", "r9y9_legacy_l1",
   "r9y9_legacy_l2", "r9y9_l1", "r9y9_l2", "linmagspec_l1", "linmagspec_l2",
   "logmagspec_l1", "logmagspec_l2"}

\* Lines 171-357: the TRAIN branch.
BuildTrain(cfg) ==
  IF ReconLoss(cfg.train_recon_domain, cfg.train_recon_norm) = <<>>
  THEN Built("ValueError", GraphAttrs, 0, "unset")
  ELSE
    LET distill == IF cfg.train_distill
                   THEN {"distill_saver", "train_distill_nll"} ELSE {}
    IN  IF ~cfg.train_gan
        THEN Built("none", GraphAttrs \cup distill \cup {"train_op"},
                   0, "unset")
        ELSE IF cfg.train_gan_disc_arch \notin DiscArchs
        THEN Built("ValueError", GraphAttrs, 0, "unset")
        ELSE IF DiscUpdates(cfg.train_gan_objective) = 0
        THEN Built("ValueError", GraphAttrs, 0, "unset")
        ELSE Built("none",
                   GraphAttrs \cup distill \cup
                     {"train_gan_num_disc_updates", "D_train_op", "train_op"},
                   DiscUpdates(cfg.train_gan_objective), "unset")

\* Lines 358-403: the EVAL branch.
BuildEval(cfg) ==
  Built("none",
        GraphAttrs \cup
          {"wavenet_sess", "summaries", "best_nll", "best_wav_l1",
           "best_r9y9_l2", "best_linmagspec_l2"}
          \cup (IF cfg.eval_wavenet_metagraph_fp # ""
                THEN {"wavenet_input_wave", "wavenet_avg_nll"} ELSE {}),
        0,
        IF cfg.eval_wavenet_metagraph_fp # "" THEN "session" ELSE "None")

\* WavenetVocoder.__call__
WavenetVocoder_call(mode, cfg) ==
  LET up == Upsample(cfg.input_spec_upsample, cfg.x_len)
      inp == InputStructure(cfg.input_type, cfg.input_spec_upsample)
  IN  IF up # "ok" THEN Built(up, {}, 0, "unset")
      ELSE IF inp # "ok" THEN Built(inp, {}, 0, "unset")
      ELSE IF mode = "TRAIN" THEN BuildTrain(cfg)
      ELSE IF mode = "EVAL" THEN BuildEval(cfg)
      ELSE Built("none", GraphAttrs, 0, "unset")

Modes == {"TRAIN", "EVAL", "INFER"}

UpsampleValues == {"default", "tile", "linear", "learned", "nearest"}

InputTypes == {"uniform_spec", "gaussian_spec", "spec_none", "spec_spec",
               "spec_lospec", "noise_spec"}

ReconDomains == {"wave", "r9y9_legacy", "r9y9", "linmagspec", "logmagspec",
                 "mel"}

ReconNorms == {"l1", "l2", "linf"}

DiscArchValues == DiscArchs \cup {"patchgan"}

Objectives == {"dcgan", "wgangp", "lsgan"}

\* The configurations tried.  A setting the call never reads is left at its
\* class default: the discriminator settings without train_gan, the frame
\* count of the spectrogram unless the upsampling is learned, the metagraph
\* path outside EVAL, and the training settings in a mode other than TRAIN
\* and EVAL.
ConfigTried(mode, cfg) ==
  /\ cfg.input_spec_upsample # "learned" => cfg.x_len = subseq_len
  /\ ~cfg.train_gan =>
       /\ cfg.train_gan_disc_arch = "wavegan_waveonly"
       /\ cfg.train_gan_objective = "wgangp"
  /\ mode # "EVAL" => cfg.eval_wavenet_metagraph_fp = ""
  /\ mode # "TRAIN" => ~cfg.train_distill
  /\ mode \notin {"TRAIN", "EVAL"} =>
       /\ cfg.train_recon_domain = "r9y9"
       /\ cfg.train_recon_norm = "l2"
       /\ ~cfg.train_gan

Unbuilt ==
  [built |-> FALSE, outcome |-> "none", exc |-> "none", attrs |-> {},
   train_gan_num_disc_updates |-> 0, wavenet_sess |-> "unset",
   mode |-> "none", cfg |-> <<>>]

InitVocoder ==
  /\ engine = SpectralUtil_init
  /\ call = NoCall
  /\ ncalls = 0
  /\ lin = "unused"
  /\ voc = Unbuilt

\* model = WavenetVocoder(mode); model(x_r9y9, x_wave)
Call_WavenetVocoder ==
  /\ ~voc.built
  /\ \E mode \in Modes,
        up \in UpsampleValues, it \in InputTypes,
        x_len \in {subseq_len, subseq_len + 1},
        dom \in ReconDomains, norm \in ReconNorms,
        gan \in BOOLEAN, arch \in DiscArchValues, obj \in Objectives,
        distill \in BOOLEAN, fp \in {"", "wavenet.meta"} :
       LET cfg == [input_spec_upsample |-> up, input_type |-> it,
                   x_len |-> x_len,
                   train_recon_domain |-> dom, train_recon_norm |-> norm,
                   train_gan |-> gan, train_gan_disc_arch |-> arch,
                   train_gan_objective |-> obj, train_distill |-> distill,
                   eval_wavenet_metagraph_fp |-> fp]
       IN  /\ ConfigTried(mode, cfg)
           /\ voc' = [mode |-> mode, cfg |-> cfg]
                       @@ WavenetVocoder_call(mode, cfg)
  /\ UNCHANGED <<engine, call, ncalls, lin>>

NextVocoder ==
  \/ Call_WavenetVocoder

SpecVocoder == InitVocoder /\ [][NextVocoder]_vars

\* The configuration values with no defined behaviour, as the claim lists
\* them.
UndefinedConfig ==
  \/ voc.cfg.input_spec_upsample \notin {"default", "tile", "linear", "learned"}
  \/ voc.cfg.input_type \notin {"uniform_spec", "gaussian_spec", "spec_none",
                                "spec_spec", "spec_lospec"}
  \/ /\ voc.mode = "TRAIN"
     /\ \/ voc.cfg.train_recon_domain \notin
             {"wave", "r9y9_legacy", "r9y9", "linmagspec", "logmagspec"}
        \/ voc.cfg.train_recon_norm \notin {"l1", "l2"}
        \/ /\ voc.cfg.train_gan
           /\ \/ voc.cfg.train_gan_disc_arch \notin DiscArchs
              \/ voc.cfg.train_gan_objective \notin {"dcgan", "wgangp"}

\* C9 as stated: an unrecognized input_spec_upsample or input_type, in TRAIN
\* mode an unrecognized (train_recon_domain, train_recon_norm) pair and, with
\* train_gan, an unrecognized train_gan_disc_arch or train_gan_objective each
\* make __call__ raise ValueError, and no train_op is created.
C9_UndefinedConfigRaisesValueError ==
  (voc.built /\ UndefinedConfig) =>
    /\ voc.outcome = "raise"
    /\ voc.exc = "ValueError"
    /\ "train_op" \notin voc.attrs

\* C9 as amended: each of these makes __call__ raise, with no train_op
\* created and no fallback to a default; the error is ValueError, unless
\* the assertion on a spec_* input_type with input_spec_upsample 'default'
\* (lines 115, 119, 123) fails first, with AssertionError: that can only
\* precede the TRAIN-mode checks.
C9_UndefinedConfigRaises ==
  (voc.built /\ UndefinedConfig) =>
    /\ voc.outcome = "raise"
    /\ "train_op" \notin voc.attrs
    /\ "D_train_op" \notin voc.attrs
    /\ \/ voc.exc = "ValueError"
       \/ /\ voc.exc = "AssertionError"
          /\ voc.cfg.input_spec_upsample = "default"
          /\ voc.cfg.input_type \in {"spec_none", "spec_spec", "spec_lospec"}

C9_Witness ==
  /\ voc.built
  /\ voc.mode = "TRAIN"
  /\ voc.cfg.train_recon_domain = "mel"
  /\ voc.cfg.input_type = "spec_spec"
  /\ voc.cfg.input_spec_upsample = "learned"
  /\ voc.cfg.x_len = subseq_len
  /\ voc.exc = "ValueError"
  /\ "vocoded_wave" \in voc.attrs
  /\ "train_op" \notin voc.attrs

----------------------------------------------------------------------------
(* WavenetVocoder.eval_ckpt, on a model built in EVAL mode. *)

\* Class attributes of WavenetVocoder.
eval_batch_size == 16
eval_batch_num == 16

\* The batch size eval_ckpt supports with a WaveNet session (line 421).
WavenetBatchSize == 16

\* None, for a best_* attribute; the averages are numbers above it.
NoneV == 0 - 1

\* The class defaults, but for the path of the WaveNet evaluation graph.
DefaultConfig(fp) ==
  [input_spec_upsample |-> "default", input_type |-> "gaussian_spec",
   x_len |-> subseq_len,
   train_recon_domain |-> "r9y9", train_recon_norm |-> "l2",
   train_gan |-> FALSE, train_gan_disc_arch |-> "wavegan_waveonly",
   train_gan_objective |-> "wgangp", train_distill |-> FALSE,
   eval_wavenet_metagraph_fp |-> fp]

\* Lines 400-403: the best_* attributes after __call__ in EVAL mode.
NoBest == [nll |-> NoneV, wav_l1 |-> NoneV, r9y9_l2 |-> NoneV,
           linmagspec_l2 |-> NoneV]

\* Lines 435-466: the batches evaluated, of those the dataset still holds
\* (sess.run raises OutOfRangeError after the last one).
BatchesEvaluated(avail) ==
  IF avail < eval_batch_num THEN avail ELSE eval_batch_num

\* Lines 453-455: the length of _all_nll after n batches.
NllCount(self, n) == IF self.wavenet_sess # "None" THEN n ELSE 0

\* Lines 487-489 (and 492-494, 497-499, 502-504): whether the average is a
\* new best.
IsBest(avg, stored) == stored = NoneV \/ avg < stored

\* A plausible slip: a tie with the stored best counts as a new best.
BestLabels_ties(avgs, stored) ==
  SelectSeq(<<"wavenet_nll", "wav", "r9y9", "linmagspec">>,
            LAMBDA l :
              \/ l = "wavenet_nll"
                 /\ (stored.nll = NoneV \/ avgs.nll <= stored.nll)
              \/ l = "wav"
                 /\ (stored.wav_l1 = NoneV \/ avgs.wav_l1 <= stored.wav_l1)
              \/ l = "r9y9"
                 /\ (stored.r9y9_l2 = NoneV \/ avgs.r9y9_l2 <= stored.r9y9_l2)
              \/ l = "linmagspec"
                 /\ (stored.linmagspec_l2 = NoneV
                     \/ avgs.linmagspec_l2 <= stored.linmagspec_l2))

\* Lines 484-504: the list best.
BestLabels(avgs, stored) ==
  SelectSeq(<<"wavenet_nll", "wav", "r9y9", "linmagspec">>,
            LAMBDA l :
              \/ l = "wavenet_nll" /\ IsBest(avgs.nll, stored.nll)
              \/ l = "wav" /\ IsBest(avgs.wav_l1, stored.wav_l1)
              \/ l = "r9y9" /\ IsBest(avgs.r9y9_l2, stored.r9y9_l2)
              \/ l = "linmagspec"
                 /\ IsBest(avgs.linmagspec_l2, stored.linmagspec_l2))

\* Lines 484-504: the best_* attributes after the call.
BestAfter(avgs, stored) ==
  [nll |-> IF IsBest(avgs.nll, stored.nll) THEN avgs.nll ELSE stored.nll,
   wav_l1 |-> IF IsBest(avgs.wav_l1, stored.wav_l1)
              THEN avgs.wav_l1 ELSE stored.wav_l1,
   r9y9_l2 |-> IF IsBest(avgs.r9y9_l2, stored.r9y9_l2)
               THEN avgs.r9y9_l2 ELSE stored.r9y9_l2,
   linmagspec_l2 |-> IF IsBest(avgs.linmagspec_l2, stored.linmagspec_l2)
                     THEN avgs.linmagspec_l2 ELSE stored.linmagspec_l2]

EvalResult(exc, labels, stored) ==
  [outcome |-> IF exc = "none" THEN "return" ELSE "raise",
   exc |-> exc, best |-> labels, stored |-> stored]

\* WavenetVocoder.eval_ckpt, with the batches the dataset holds and the
\* averages np.mean gives: how the call ends, the list best it returns and
\* the best_* attributes it leaves.  np.concatenate of an empty list (line
\* 468) raises ValueError.
eval_ckpt(self, avail, avgs) ==
  IF self.wavenet_sess # "None" /\ self.eval_batch_size # WavenetBatchSize
  THEN EvalResult("NotImplementedError", <<>>, self.best)
  ELSE IF NllCount(self, BatchesEvaluated(avail)) = 0
  THEN EvalResult("ValueError", <<>>, self.best)
  ELSE EvalResult("none", BestLabels(avgs, self.best),
                  BestAfter(avgs, self.best))

\* The averages tried: two values let an average rise, fall and tie.
Losses == {1, 2}

Averages == [nll : Losses, wav_l1 : Losses, r9y9_l2 : Losses,
             linmagspec_l2 : Losses]

NoAverages == [nll |-> NoneV, wav_l1 |-> NoneV, r9y9_l2 |-> NoneV,
               linmagspec_l2 |-> NoneV]

NoEval == [outcome |-> "none", exc |-> "none", best |-> <<>>,
           before |-> NoBest, avgs |-> NoAverages, batches |-> 0]

\* A model built in EVAL mode, before any eval_ckpt: with and without a
\* WaveNet evaluation graph, with the default and another eval_batch_size.
\* returned holds the averages of the calls that returned, last the last call.
InitEval ==
  /\ engine = SpectralUtil_init
  /\ call = NoCall
  /\ ncalls = 0
  /\ lin = "unused"
  /\ \E fp \in {"", "wavenet.meta"},
        bs \in {eval_batch_size, eval_batch_size \div 2} :
       voc = [mode |-> "EVAL", cfg |-> DefaultConfig(fp),
              eval_batch_size |-> bs, best |-> NoBest,
              nevals |-> 0, returned |-> <<>>, last |-> NoEval]
             @@ WavenetVocoder_call("EVAL", DefaultConfig(fp))

Call_eval_ckpt ==
  /\ voc.nevals < MaxEvals
  /\ \E avail \in {0, 1, eval_batch_num + 1}, avgs \in Averages :
       LET r == eval_ckpt(voc, avail, avgs)
       IN  voc' = [voc EXCEPT
                     !.best = r.stored,
                     !.nevals = @ + 1,
                     !.returned = IF r.outcome = "return"
                                  THEN Append(@, avgs) ELSE @,
                     !.last = [outcome |-> r.outcome, exc |-> r.exc,
                               best |-> r.best, before |-> voc.best,
                               avgs |-> avgs,
                               batches |-> BatchesEvaluated(avail)]]
  /\ UNCHANGED <<engine, call, ncalls, lin>>

NextEval ==
  \/ Call_eval_ckpt

SpecEval == InitEval /\ [][NextEval]_vars

\* C11: in EVAL mode with no WaveNet evaluation graph (wavenet_sess is None)
\* eval_ckpt returns, whatever the number of batches evaluated, rather than
\* ending in an error.
C11_EvalWithoutWavenetReturns ==
  (voc.wavenet_sess = "None" /\ voc.last.outcome # "none") =>
    voc.last.outcome = "return"

\* The least of the averages of one metric over the calls that returned, None
\* when none did.
MinSeen(metric) ==
  IF voc.returned = <<>> THEN NoneV
  ELSE LET seen == {voc.returned[i][metric] : i \in 1..Len(voc.returned)}
       IN  CHOOSE m \in seen : \A x \in seen : m <= x

Reported(label) == \E i \in 1..Len(voc.last.best) : voc.last.best[i] = label

\* C13: over the eval_ckpt calls that return, each best_* attribute is the
\* least of its metric's averages so far (a call that raises leaves them as
\* they were), and the list best returned holds a metric's label exactly
\* when its stored best was None or the new average is strictly smaller: a
\* tie is not reported.
C13_BestIsRunningMinimum ==
  /\ voc.best.nll = MinSeen("nll")
  /\ voc.best.wav_l1 = MinSeen("wav_l1")
  /\ voc.best.r9y9_l2 = MinSeen("r9y9_l2")
  /\ voc.best.linmagspec_l2 = MinSeen("linmagspec_l2")
  /\ voc.last.outcome = "raise" => voc.best = voc.last.before
  /\ voc.last.outcome = "return" =>
       /\ Reported("wavenet_nll") <=>
            (voc.last.before.nll = NoneV
             \/ voc.last.avgs.nll < voc.last.before.nll)
       /\ Reported("wav") <=>
            (voc.last.before.wav_l1 = NoneV
             \/ voc.last.avgs.wav_l1 < voc.last.before.wav_l1)
       /\ Reported("r9y9") <=>
            (voc.last.before.r9y9_l2 = NoneV
             \/ voc.last.avgs.r9y9_l2 < voc.last.before.r9y9_l2)
       /\ Reported("linmagspec") <=>
            (voc.last.before.linmagspec_l2 = NoneV
             \/ voc.last.avgs.linmagspec_l2 < voc.last.before.linmagspec_l2)
       /\ \A m \in {"nll", "wav_l1", "r9y9_l2", "linmagspec_l2"} :
            voc.last.before[m] # NoneV => voc.best[m] <= voc.last.before[m]

\* A second returning call with a tie, a smaller and a larger average.
C13_Witness ==
  /\ Len(voc.returned) = 2
  /\ voc.last.outcome = "return"
  /\ voc.last.avgs.wav_l1 = voc.last.before.wav_l1
  /\ ~Reported("wav")
  /\ voc.last.avgs.r9y9_l2 < voc.last.before.r9y9_l2
  /\ Reported("r9y9")
  /\ voc.last.avgs.nll > voc.last.before.nll
  /\ ~Reported("wavenet_nll")
  /\ voc.best.nll = voc.last.before.nll

\* ---------------------------------------------------------------------------
\* Training: WavenetVocoder.train_loop on a model built in TRAIN mode.
\* ---------------------------------------------------------------------------

\* for i in range(n): sess.run(op)
RunTimes(op, n) == [i \in 1..n |-> op]

\* train_loop with the generator updated ahead of the discriminator.
train_loop_generator_first(self) ==
  IF self.cfg.train_gan
  THEN <<"train_op">> \o RunTimes("D_train_op", self.train_gan_num_disc_updates)
  ELSE <<"train_op">>

\* WavenetVocoder.train_loop: the operations handed to sess.run, in order.
\* Each sess.run is taken to return.
train_loop(self) ==
  IF self.cfg.train_gan
  THEN RunTimes("D_train_op", self.train_gan_num_disc_updates) \o <<"train_op">>
  ELSE <<"train_op">>

CountOf(op, ran) == Cardinality({i \in 1..Len(ran) : ran[i] = op})

\* The training configurations tried: every reconstruction loss, with and
\* without a GAN and distillation, the input settings at their defaults.
TrainConfigs ==
  {cfg \in [input_spec_upsample : {"default"}, input_type : {"gaussian_spec"},
            x_len : {subseq_len},
            train_recon_domain : ReconDomains, train_recon_norm : ReconNorms,
            train_gan : BOOLEAN, train_gan_disc_arch : DiscArchValues,
            train_gan_objective : Objectives, train_distill : BOOLEAN,
            eval_wavenet_metagraph_fp : {""}] :
     /\ ConfigTried("TRAIN", cfg)
     /\ WavenetVocoder_call("TRAIN", cfg).outcome = "return"}

\* model = WavenetVocoder(Modes.TRAIN); model(x_r9y9, x_wave) has returned.
InitTrain ==
  /\ engine = SpectralUtil_init
  /\ call = NoCall
  /\ ncalls = 0
  /\ lin = "unused"
  /\ \E cfg \in TrainConfigs :
       voc = [mode |-> "TRAIN", cfg |-> cfg, nloops |-> 0, ran |-> <<>>,
              last |-> <<>>]
               @@ WavenetVocoder_call("TRAIN", cfg)

\* model.train_loop(sess)
Call_train_loop ==
  /\ voc.nloops < MaxTrainLoops
  /\ voc' = [voc EXCEPT !.nloops = @ + 1,
                        !.ran = @ \o train_loop(voc),
                        !.last = train_loop(voc)]
  /\ UNCHANGED <<engine, call, ncalls, lin>>

NextTrain ==
  \/ Call_train_loop

SpecTrain == InitTrain /\ [][NextTrain]_vars

\* The discriminator updates one train_loop call is to make.
DiscUpdatesPerLoop ==
  IF ~voc.cfg.train_gan THEN 0
  ELSE IF voc.cfg.train_gan_objective = "wgangp" THEN 5
  ELSE 1

\* C12: every train_loop call runs train_op exactly once and last; with
\* train_gan it runs D_train_op train_gan_num_disc_updates times before it
\* (5 for wgangp, 1 for dcgan), without train_gan never; so after n calls
\* D_train_op has run n * train_gan_num_disc_updates times and train_op n
\* times.
C12_DiscriminatorThenGenerator ==
  LET k == DiscUpdatesPerLoop
  IN  /\ voc.cfg.train_gan => voc.train_gan_num_disc_updates = k
      /\ voc.nloops > 0 =>
           /\ Len(voc.last) = k + 1
           /\ voc.last[k + 1] = "train_op"
           /\ \A i \in 1..k : voc.last[i] = "D_train_op"
      /\ Len(voc.ran) = voc.nloops * (k + 1)
      /\ \A i \in 1..Len(voc.ran) :
           voc.ran[i] = IF i % (k + 1) = 0 THEN "train_op" ELSE "D_train_op"
      /\ CountOf("D_train_op", voc.ran) = voc.nloops * k
      /\ CountOf("train_op", voc.ran) = voc.nloops

\* Two train_loop calls of a WGAN-GP model: ten discriminator updates.
C12_Witness ==
  /\ voc.nloops = 2
  /\ voc.cfg.train_gan
  /\ voc.cfg.train_gan_objective = "wgangp"
  /\ CountOf("D_train_op", voc.ran) = 10
  /\ CountOf("train_op", voc.ran) = 2

====
